---- MODULE Spec2Model ----
(***************************************************************************)
(* Token lifecycle and authorization guard chain of the FastAPI JWT auth   *)
(* service: app/auth/jwt.py (token codec), app/auth/security.py (password  *)
(* hasher), app/crud/user.py (user store operations and authenticate_user),*)
(* app/dependencies.py (identity resolver and guards), app/routers/auth.py *)
(* (register, login, refresh) and app/db/init_db.py (bootstrap).           *)
(*                                                                         *)
(* Time is counted in ticks, TicksPerSec ticks to the second, so that the  *)
(* truncation of `exp` to whole seconds done by jwt.encode, and of "now"   *)
(* done by jwt.decode, is part of the model.                               *)
(***************************************************************************)
EXTENDS Integers, FiniteSets, Sequences, TLC

VARIABLES
    now,        \* the wall clock datetime.now(timezone.utc), in ticks
    settings,   \* app.core.config.settings (read-only after start-up)
    issued,     \* codec: the last token issued by a direct create_*_token call
    verified,   \* codec: the last verify_token call and what it returned
    users,      \* the rows of the "users" table
    held,       \* the tokens the client holds: the last token response
    resp,       \* the response of the last auth or crud operation
    req,        \* the protected request in flight through the guard chain
    pending     \* per client, its request to a users or register endpoint

vars == <<now, settings, issued, verified, users, held, resp, req, pending>>

----------------------------------------------------------------------------
(* Bounds of the model *)

TicksPerSec == 2
SecondsPerMinute == 2
MinutesPerDay == 2
MaxAccessMinutes == 1
MaxRefreshDays == 1
MaxTime == 10
MaxDelta == 3
MaxConfigMinutes == 3
MaxConfigDays == 1

----------------------------------------------------------------------------
(* Values *)

\* Python's None, as a record so that it compares with payloads and rows
None == [none |-> TRUE]

\* expires_delta: Optional[timedelta], in ticks: << >> is the default None,
\* <<d>> is timedelta(d)
NoDelta == << >>
Deltas == {NoDelta} \cup {<<d>> : d \in 0 .. MaxDelta}

Emails == {"admin@example.com", "alice@example.com"}
Subjects == Emails \cup {"ghost@example.com"}

\* UserRole
ADMIN == "admin"
MODERATOR == "moderator"
USER == "user"
UserRole == {ADMIN, MODERATOR, USER}

\* settings.SECRET_KEY and settings.ALGORITHM
SECRET_KEY == "SECRET_KEY"
ALGORITHM == "HS256"

----------------------------------------------------------------------------
(* datetime / timedelta arithmetic, in ticks *)

timedelta_minutes(m) == m * SecondsPerMinute * TicksPerSec
timedelta_days(d) == d * MinutesPerDay * SecondsPerMinute * TicksPerSec

\* calendar.timegm(dt.utctimetuple()): whole seconds, the fraction dropped
timegm(t) == t \div TicksPerSec

----------------------------------------------------------------------------
(* jose.jwt as used by app/auth/jwt.py *)

\* the HMAC of header and claims under a key
Sign(key, header, claims) == <<"mac", key, header, claims>>

\* jwt.encode: datetime claims become whole seconds, then header.claims.signature
jwt_encode(claims, key, algorithm) ==
    LET c == [k \in DOMAIN claims |->
                 IF k = "exp" THEN timegm(claims[k]) ELSE claims[k]]
        h == [alg |-> algorithm, typ |-> "JWT"]
    IN  [header |-> h, claims |-> c, signature |-> Sign(key, h, c)]

\* the exception classes of jose.exceptions; all derive from JWTError
JWTErrors == {"JWTError", "ExpiredSignatureError", "JWTClaimsError"}

\* how a call ends: it returns a value or raises an exception of some class
Return(v) == [kind |-> "return", value |-> v]
Raise(class) == [kind |-> "raise", exc |-> [class |-> class]]

IsWellFormed(token) == DOMAIN token = {"header", "claims", "signature"}

\* jwt.decode at instant t: structure, algorithm, signature, then the exp claim
jwt_decode(token, key, algorithms, t) ==
    IF ~IsWellFormed(token) THEN Raise("JWTError")
    ELSE IF token.header.alg \notin algorithms THEN Raise("JWTError")
    ELSE IF token.signature # Sign(key, token.header, token.claims)
         THEN Raise("JWTError")
    ELSE IF "exp" \in DOMAIN token.claims /\ token.claims["exp"] < timegm(t)
         THEN Raise("ExpiredSignatureError")
    ELSE Return(token.claims)

----------------------------------------------------------------------------
(* app/auth/jwt.py *)

\* dict.update: the keys of `extra` override those of `d`
DictUpdate(d, extra) == extra @@ d

\* `k in d`; payload.get(k) is None exactly when the key is missing
HasKey(d, k) == k \in DOMAIN d

\* Python truthiness of Optional[timedelta]: None and timedelta(0) are falsy
Truthy(expires_delta) == expires_delta # NoDelta /\ expires_delta[1] # 0

\* a slip of units: the configured minutes taken for seconds
AccessExpire_seconds(expires_delta, t) ==
    IF Truthy(expires_delta)
    THEN t + expires_delta[1]
    ELSE t + settings.ACCESS_TOKEN_EXPIRE_MINUTES * TicksPerSec

AccessExpire(expires_delta, t) ==
    IF Truthy(expires_delta)
    THEN t + expires_delta[1]
    ELSE t + timedelta_minutes(settings.ACCESS_TOKEN_EXPIRE_MINUTES)

create_access_token(data, expires_delta, t) ==
    LET to_encode == DictUpdate(data,
            [exp |-> AccessExpire(expires_delta, t), type |-> "access"])
    IN  jwt_encode(to_encode, SECRET_KEY, ALGORITHM)

RefreshExpire(t) == t + timedelta_days(settings.REFRESH_TOKEN_EXPIRE_DAYS)

create_refresh_token(data, t) ==
    LET to_encode == DictUpdate(data,
            [exp |-> RefreshExpire(t), type |-> "refresh"])
    IN  jwt_encode(to_encode, SECRET_KEY, ALGORITHM)

\* the except clause of verify_token: JWTError and its subclasses
Caught(exc) == exc.class \in JWTErrors

\* the type test left out
TypeMatches_any(payload, token_type) == HasKey(payload, "type")

\* the type test of verify_token
TypeMatches(payload, token_type) ==
    HasKey(payload, "type") /\ payload["type"] = token_type

\* a token counted as revoked once no active row has its subject
verify_token_stored(token, token_type, t) ==
    LET r == jwt_decode(token, SECRET_KEY, {ALGORITHM}, t)
    IN  IF r.kind = "raise"
        THEN (IF Caught(r.exc) THEN Return(None) ELSE r)
        ELSE IF ~TypeMatches(r.value, token_type) THEN Return(None)
        ELSE IF ~\E u \in users : HasKey(r.value, "sub")
                    /\ u.email = r.value["sub"] /\ u.is_active
        THEN Return(None)
        ELSE Return(r.value)

verify_token(token, token_type, t) ==
    LET r == jwt_decode(token, SECRET_KEY, {ALGORITHM}, t)
    IN  IF r.kind = "raise"
        THEN (IF Caught(r.exc) THEN Return(None) ELSE r)
        ELSE IF ~TypeMatches(r.value, token_type) THEN Return(None)
        ELSE Return(r.value)

----------------------------------------------------------------------------
(* Callers of the codec: the payloads they pass and the tokens they present *)

\* data: {"sub": s}, the empty payload, and payloads that try to set the
\* claims create_*_token owns
Datas ==
    {[sub |-> s] : s \in Subjects}
    \cup {[k \in {} |-> None]}
    \cup {[sub |-> "alice@example.com", type |-> ty] : ty \in {"access", "refresh"}}
    \cup {[sub |-> "alice@example.com", exp |-> 0]}

\* a token that is not three base64 segments
Malformed == [raw |-> "invalid.token.here"]

\* one byte of the signature segment flipped
FlipSignature(token) == [token EXCEPT !.signature = <<"flipped", @>>]

\* the claims segment rewritten to the other token class, signature kept
Retype(token) ==
    [token EXCEPT !.claims = [type |-> IF @["type"] = "access"
                                       THEN "refresh" ELSE "access"] @@ @]

\* the same claims signed with a key that is not settings.SECRET_KEY
Forge(token) ==
    [token EXCEPT !.signature = Sign("attacker_key", token.header, token.claims)]

\* the header rewritten to the unsigned algorithm
AlgNone(token) == [token EXCEPT !.header = [alg |-> "none", typ |-> "JWT"]]

Hows == {"intact", "flipped", "retyped", "forged", "algnone", "malformed"}

Present(token, how) ==
    CASE how = "intact" -> token
      [] how = "flipped" -> FlipSignature(token)
      [] how = "retyped" -> Retype(token)
      [] how = "forged" -> Forge(token)
      [] how = "algnone" -> AlgNone(token)
      [] how = "malformed" -> Malformed

TokenTypes == {"access", "refresh"}

\* the clients that can have a request in flight at the same time
Clients == {"c1", "c2"}

----------------------------------------------------------------------------
(* Initial state *)

Init ==
    /\ now = 0
    /\ settings \in [ACCESS_TOKEN_EXPIRE_MINUTES : 1 .. MaxAccessMinutes,
                     REFRESH_TOKEN_EXPIRE_DAYS : 1 .. MaxRefreshDays]
    /\ issued = None
    /\ verified = None
    /\ users = {}
    /\ held = None
    /\ resp = None
    /\ req = None
    /\ pending = [c \in Clients |-> None]

----------------------------------------------------------------------------
(* The codec called directly *)

\* time passes; the return value of the last call is gone with its instant
Tick ==
    /\ req = None
    /\ now < MaxTime
    /\ now' = now + 1
    /\ verified' = None
    /\ UNCHANGED <<pending, settings, issued, users, held, resp, req>>

CreateAccessToken ==
    \E data \in Datas, expires_delta \in Deltas :
        /\ req = None
        /\ issued' = [token |-> create_access_token(data, expires_delta, now),
                      kind |-> "access", data |-> data,
                      at |-> now, delta |-> expires_delta]
        /\ verified' = None
        /\ resp' = None
        /\ UNCHANGED <<pending, now, settings, users, held, req>>

CreateRefreshToken ==
    \E data \in Datas :
        /\ req = None
        /\ issued' = [token |-> create_refresh_token(data, now),
                      kind |-> "refresh", data |-> data,
                      at |-> now, delta |-> NoDelta]
        /\ verified' = None
        /\ resp' = None
        /\ UNCHANGED <<pending, now, settings, users, held, req>>

VerifyToken ==
    \E how \in Hows, token_type \in TokenTypes :
        /\ issued # None
        /\ verified' = [how |-> how, token_type |-> token_type, at |-> now,
                        result |-> verify_token(Present(issued.token, how),
                                                token_type, now)]
        /\ UNCHANGED <<pending, now, settings, issued, users, held, resp, req>>

NextCodec == Tick \/ CreateAccessToken \/ CreateRefreshToken \/ VerifyToken

SpecCodec == Init /\ [][NextCodec]_vars

----------------------------------------------------------------------------
(* app/auth/security.py: pwdlib's recommended hasher, a salted one-way hash *)

Passwords == {"secret1234", "password123"}
Salts == {"salt1", "salt2"}

Digest(password, salt) == <<"argon2", salt, password>>

\* the password kept as it is
get_password_hash_plain(password, salt) == [raw |-> password]

\* password_hash.hash: a fresh salt per call
get_password_hash(password, salt) ==
    [salt |-> salt, digest |-> Digest(password, salt)]

\* Argon2Hasher.identify: the string has the layout of an argon2 hash
identify(hash) == DOMAIN hash = {"salt", "digest"}

\* PasswordHash.verify: the first hasher that identifies the hash recomputes
\* it under the stored salt and compares, a mismatch or a corrupt digest
\* giving False; a hash no hasher identifies raises UnknownHashError
password_hash_verify(password, hash) ==
    IF identify(hash)
    THEN Return(Digest(password, hash.salt) = hash.digest)
    ELSE Raise("UnknownHashError")

\* verify_password returns what password_hash.verify returns and lets
\* through what it raises
verify_password(plain_password, hashed_password) ==
    password_hash_verify(plain_password, hashed_password)

----------------------------------------------------------------------------
(* app/crud/user.py over the rows of the users table                       *)
(* a row: [id, email, hashed_password, is_active, role]                    *)

\* the primary keys the model lets the table hand out
Ids == {1, 2}

get_user(rows, user_id) ==
    IF \E u \in rows : u.id = user_id
    THEN CHOOSE u \in rows : u.id = user_id
    ELSE None

get_user_by_email(rows, email) ==
    IF \E u \in rows : u.email = email
    THEN CHOOSE u \in rows : u.email = email
    ELSE None

\* the integer primary key a new row gets: one more than the largest in use
NextId(rows) ==
    IF rows = {} THEN 1
    ELSE 1 + (CHOOSE m \in {u.id : u \in rows} : \A u \in rows : u.id <= m)

\* a table without the unique index
EmailTaken_never(rows, email, except_id) == FALSE

\* the unique index on users.email
EmailTaken(rows, email, except_id) ==
    \E u \in rows : u.email = email /\ u.id # except_id

\* the new row left inactive until confirmed
create_user_inactive(rows, email, password, role, salt) ==
    LET db_user == [id |-> NextId(rows), email |-> email,
                    hashed_password |-> get_password_hash(password, salt),
                    is_active |-> FALSE, role |-> role]
    IN  IF EmailTaken(rows, email, 0)
        THEN [rows |-> rows, result |-> Raise("IntegrityError")]
        ELSE [rows |-> rows \cup {db_user}, result |-> Return(db_user)]

\* create_user: returns the new row, or raises IntegrityError on commit
create_user(rows, email, password, role, salt) ==
    LET db_user == [id |-> NextId(rows), email |-> email,
                    hashed_password |-> get_password_hash(password, salt),
                    is_active |-> TRUE, role |-> role]
    IN  IF EmailTaken(rows, email, 0)
        THEN [rows |-> rows, result |-> Raise("IntegrityError")]
        ELSE [rows |-> rows \cup {db_user}, result |-> Return(db_user)]

\* the password dropped from the update instead of hashed
UpdateData_drop(user_update, salt) ==
    [k \in DOMAIN user_update \ {"password"} |-> user_update[k]]

\* model_dump(exclude_unset=True), then "password" replaced by its hash
UpdateData(user_update, salt) ==
    IF HasKey(user_update, "password")
    THEN [k \in (DOMAIN user_update \ {"password"}) \cup {"hashed_password"} |->
            IF k = "hashed_password"
            THEN get_password_hash(user_update["password"], salt)
            ELSE user_update[k]]
    ELSE user_update

\* setattr(db_user, field, value) for every field of update_data
ApplyUpdate(db_user, update_data) ==
    [f \in DOMAIN db_user |->
        IF f \in DOMAIN update_data THEN update_data[f] ELSE db_user[f]]

\* the fields a UserUpdate body sets to null: they are in model_fields_set,
\* so model_dump(exclude_unset=True) keeps them, with the value None
Nulls(user_update) ==
    IF HasKey(user_update, "null") THEN user_update["null"] ELSE {}

\* the columns declared nullable=False that an update can name
NotNullColumns == {"email", "is_active", "role"}

\* update_user: the changed row, None for a missing id, or the exception
\* of get_password_hash(None) or of the commit (NOT NULL, unique email)
update_user(rows, user_id, user_update, salt) ==
    LET db_user == get_user(rows, user_id)
        changed == ApplyUpdate(db_user, UpdateData(user_update, salt))
    IN  IF db_user = None THEN [rows |-> rows, result |-> Return(None)]
        ELSE IF "password" \in Nulls(user_update)
        THEN [rows |-> rows, result |-> Raise("AttributeError")]
        ELSE IF Nulls(user_update) \cap NotNullColumns # {}
        THEN [rows |-> rows, result |-> Raise("IntegrityError")]
        ELSE IF EmailTaken(rows, changed.email, user_id)
        THEN [rows |-> rows, result |-> Raise("IntegrityError")]
        ELSE [rows |-> (rows \ {db_user}) \cup {changed},
              result |-> Return(changed)]

delete_user(rows, user_id) ==
    LET db_user == get_user(rows, user_id)
    IN  IF db_user = None THEN [rows |-> rows, result |-> Return(FALSE)]
        ELSE [rows |-> rows \ {db_user}, result |-> Return(TRUE)]

\* the active flag checked where it should not be
authenticate_user_active(rows, email, password) ==
    LET user == get_user_by_email(rows, email)
        v == verify_password(password, user.hashed_password)
    IN  IF user = None THEN None
        ELSE IF v.kind = "raise" THEN v
        ELSE IF ~v.value THEN None
        ELSE IF ~user.is_active THEN None
        ELSE user

\* authenticate_user: the row, None, or the exception verify_password let
\* through
authenticate_user(rows, email, password) ==
    LET user == get_user_by_email(rows, email)
        v == verify_password(password, user.hashed_password)
    IN  IF user = None THEN None
        ELSE IF v.kind = "raise" THEN v
        ELSE IF ~v.value THEN None
        ELSE user

\* the flag ignored
is_active_always(user) == TRUE

is_active(user) == user.is_active

----------------------------------------------------------------------------
(* app/dependencies.py: the identity resolver and the guards               *)

HTTPException(status_code, detail) ==
    [kind |-> "raise",
     exc |-> [class |-> "HTTPException", status_code |-> status_code,
              detail |-> detail]]

credentials_exception == HTTPException(401, "Could not validate credentials")

\* the claims read without verifying the token
token_subject_unverified(token, t) ==
    IF ~IsWellFormed(token) THEN credentials_exception
    ELSE IF ~HasKey(token.claims, "sub") THEN credentials_exception
    ELSE Return(token.claims["sub"])

\* get_current_user, first half: the subject of a verified access token
token_subject(token, t) ==
    LET v == verify_token(token, "access", t)
        payload == v.value
    IN  IF v.kind = "raise"
        THEN (IF Caught(v.exc) THEN credentials_exception ELSE v)
        ELSE IF payload = None THEN credentials_exception
        ELSE IF ~HasKey(payload, "sub") THEN credentials_exception
        ELSE Return(payload["sub"])

\* a missing row reported as 404 instead of the credentials error
lookup_subject_404(rows, email) ==
    LET user == get_user_by_email(rows, email)
    IN  IF user = None THEN HTTPException(404, "User not found")
        ELSE Return(user)

\* get_current_user, second half: the stored row of that subject
lookup_subject(rows, email) ==
    LET user == get_user_by_email(rows, email)
    IN  IF user = None THEN credentials_exception ELSE Return(user)

get_current_user(rows, token, t) ==
    LET e == token_subject(token, t)
    IN  IF e.kind = "raise" THEN e ELSE lookup_subject(rows, e.value)

\* the active check left out
get_current_active_user_skip(current_user) == Return(current_user)

get_current_active_user(current_user) ==
    IF ~is_active(current_user)
    THEN HTTPException(400, "Inactive user account")
    ELSE Return(current_user)

\* the membership test inverted
role_checker_inverted(allowed_roles, current_user) ==
    IF current_user.role \in allowed_roles
    THEN HTTPException(403, "Access denied")
    ELSE Return(current_user)

\* the role_checker that require_role(*allowed_roles) builds
role_checker(allowed_roles, current_user) ==
    IF current_user.role \notin allowed_roles
    THEN HTTPException(403, "Access denied")
    ELSE Return(current_user)

\* the dependency an endpoint declares: << >> is get_current_active_user
\* alone, <<S>> is require_role(S)
NoRoles == << >>
require_role(allowed_roles) == <<allowed_roles>>
require_admin == require_role({ADMIN})
require_moderator == require_role({MODERATOR, ADMIN})
Guards == {NoRoles} \cup {require_role(S) : S \in SUBSET UserRole}

\* the terminal state a finished request is in
Outcome(r) ==
    IF r.result.kind = "return" THEN "Authorized"
    ELSE IF r.result.exc.class # "HTTPException" THEN "Error"
    ELSE IF r.result.exc.status_code = 401 THEN "Unauthenticated"
    ELSE IF r.result.exc.status_code = 400 THEN "Disabled"
    ELSE IF r.result.exc.status_code = 403 THEN "Forbidden"
    ELSE "Error"

----------------------------------------------------------------------------
(* A protected request: FastAPI resolves get_current_user, then             *)
(* get_current_active_user, then the role_checker the endpoint declares.   *)
(* The later stages read only the row get_current_user loaded, so a        *)
(* request in flight is run to its end, and its response delivered, before *)
(* the next operation starts.                                              *)

Idle == req = None

\* the token a client presents: one of those it holds from login or refresh
\* ("access", "refresh"), that access token with a signature byte flipped,
\* the token issued to it directly, an access token without sub, or a
\* string that is no token
HasToken(src) ==
    CASE src \in {"access", "refresh", "flipped"} -> held # None
      [] src = "issued" -> issued # None
      [] OTHER -> TRUE

TokenFrom(src) ==
    CASE src = "access" -> held.access_token
      [] src = "refresh" -> held.refresh_token
      [] src = "flipped" -> FlipSignature(held.access_token)
      [] src = "issued" -> issued.token
      [] src = "nosub" -> create_access_token([k \in {} |-> None], NoDelta, now)
      [] OTHER -> Malformed

\* when and by which endpoint the presented token was issued
IssuedAt(src) ==
    CASE src \in {"access", "refresh", "flipped"} -> held.at
      [] src = "issued" -> issued.at
      [] OTHER -> now

IssuedVia(src) ==
    CASE src \in {"access", "refresh", "flipped"} -> held.via
      [] OTHER -> "direct"

Finish(r, result) == [r EXCEPT !.pc = "done", !.result = result]

StartRequest(srcs, guards) ==
    \E src \in srcs, guard \in guards :
        /\ Idle
        /\ HasToken(src)
        /\ req' = [pc |-> "token", src |-> src, token |-> TokenFrom(src),
                   guard |-> guard, email |-> "", current_user |-> None,
                   result |-> None, trace |-> << >>]
        /\ resp' = None
        /\ UNCHANGED <<pending, now, settings, issued, verified, users, held>>

InFlight(pc) == req # None /\ req.pc = pc

Stage(r, name) == [r EXCEPT !.trace = Append(@, name)]

GetCurrentUserToken ==
    /\ InFlight("token")
    /\ LET e == token_subject(req.token, now)
           r == Stage(req, "token")
       IN  req' = IF e.kind = "raise" THEN Finish(r, e)
                  ELSE [r EXCEPT !.pc = "subject", !.email = e.value]
    /\ UNCHANGED <<pending, now, settings, issued, verified, users, held, resp>>

GetCurrentUserLookup ==
    /\ InFlight("subject")
    /\ LET u == lookup_subject(users, req.email)
           r == Stage(req, "subject")
       IN  req' = IF u.kind = "raise" THEN Finish(r, u)
                  ELSE [r EXCEPT !.pc = "active", !.current_user = u.value]
    /\ UNCHANGED <<pending, now, settings, issued, verified, users, held, resp>>

GetCurrentActiveUser ==
    /\ InFlight("active")
    /\ LET a == get_current_active_user(req.current_user)
           r == Stage(req, "active")
       IN  req' = IF a.kind = "raise" \/ req.guard = NoRoles THEN Finish(r, a)
                  ELSE [r EXCEPT !.pc = "role"]
    /\ UNCHANGED <<pending, now, settings, issued, verified, users, held, resp>>

RoleChecker ==
    /\ InFlight("role")
    /\ req' = Finish(Stage(req, "role"),
                     role_checker(req.guard[1], req.current_user))
    /\ UNCHANGED <<pending, now, settings, issued, verified, users, held, resp>>

\* the endpoint's answer, or the HTTPException, goes back to the client
Respond ==
    /\ InFlight("done")
    /\ req' = None
    /\ UNCHANGED <<pending, now, settings, issued, verified, users, held, resp>>

GuardStep ==
    GetCurrentUserToken \/ GetCurrentUserLookup \/ GetCurrentActiveUser
    \/ RoleChecker \/ Respond

----------------------------------------------------------------------------
(* app/db/init_db.py and app/routers/auth.py                               *)

FIRST_SUPERUSER_EMAIL == "admin@example.com"
FIRST_SUPERUSER_PASSWORD == "secret1234"

\* the UserRead schema: the row without its hashed_password
UserRead(user) ==
    [id |-> user.id, email |-> user.email, is_active |-> user.is_active,
     role |-> user.role]

\* the JSON body FastAPI renders an HTTPException as
Detail(detail) == [detail |-> detail]

Response(op, status_code, body) ==
    [op |-> op, status_code |-> status_code, body |-> body]

\* the refresh token made by the access-token function
TokenBody_copy(user, t) ==
    [access_token |-> create_access_token([sub |-> user.email], NoDelta, t),
     refresh_token |-> create_access_token([sub |-> user.email], NoDelta, t),
     token_type |-> "bearer"]

\* the Token body of login and refresh
TokenBody(user, t) ==
    [access_token |-> create_access_token([sub |-> user.email], NoDelta, t),
     refresh_token |-> create_refresh_token([sub |-> user.email], t),
     token_type |-> "bearer"]

\* what the client keeps of a token response; user_id, at and via record
\* for whom, when and by which endpoint the tokens were issued
Keep(body, user, t, via) ==
    [access_token |-> body.access_token, refresh_token |-> body.refresh_token,
     user_id |-> user.id, at |-> t, via |-> via]

InitDb(salts) ==
    \E salt \in salts :
        LET user == get_user_by_email(users, FIRST_SUPERUSER_EMAIL)
            c == create_user(users, FIRST_SUPERUSER_EMAIL,
                             FIRST_SUPERUSER_PASSWORD, ADMIN, salt)
        IN  /\ Idle
            /\ user = None
            /\ NextId(users) \in Ids
            /\ users' = c.rows
            /\ resp' = Response("init_db", 0, c.result)
            /\ req' = None
            /\ UNCHANGED <<pending, now, settings, issued, verified, held>>

Register(emails, passwords, salts) ==
    \E email \in emails, password \in passwords, salt \in salts :
        LET existing_user == get_user_by_email(users, email)
            c == create_user(users, email, password, USER, salt)
        IN  /\ Idle
            /\ existing_user # None \/ NextId(users) \in Ids
            /\ IF existing_user # None
               THEN /\ resp' = [op |-> "register", status_code |-> 400,
                                 body |-> Detail("Email already registered"),
                                 email |-> email]
                    /\ users' = users
               ELSE /\ resp' = [op |-> "register", status_code |-> 201,
                                 body |-> UserRead(c.result.value),
                                 email |-> email]
                    /\ users' = c.rows
            /\ req' = None
            /\ UNCHANGED <<pending, now, settings, issued, verified, held>>

\* an exception came out of the call instead of a value
IsRaised(r) == HasKey(r, "kind") /\ r.kind = "raise"

\* the active flag tested on the row before the password is
login_inactive_first(rows, username, password, t) ==
    LET row == get_user_by_email(rows, username)
        user == authenticate_user(rows, username, password)
    IN  IF IsRaised(user)
        THEN Response("login", 500, Detail("Internal Server Error"))
        ELSE IF row # None /\ ~row.is_active
        THEN Response("login", 400, Detail("Inactive user account"))
        ELSE IF user = None
        THEN Response("login", 401, Detail("Incorrect email or password"))
        ELSE Response("login", 200, TokenBody(user, t))

\* the active flag not tested at all
login_skip_active(rows, username, password, t) ==
    LET user == authenticate_user(rows, username, password)
    IN  IF IsRaised(user)
        THEN Response("login", 500, Detail("Internal Server Error"))
        ELSE IF user = None
        THEN Response("login", 401, Detail("Incorrect email or password"))
        ELSE Response("login", 200, TokenBody(user, t))

login(rows, username, password, t) ==
    LET user == authenticate_user(rows, username, password)
    IN  IF IsRaised(user)
        THEN Response("login", 500, Detail("Internal Server Error"))
        ELSE IF user = None
        THEN Response("login", 401, Detail("Incorrect email or password"))
        ELSE IF ~user.is_active
        THEN Response("login", 400, Detail("Inactive user account"))
        ELSE Response("login", 200, TokenBody(user, t))

\* an identity locked after a failed login for its email
Login_lockout(usernames, passwords) ==
    \E username \in usernames, password \in passwords :
        LET r == login(users, username, password, now)
            user == get_user_by_email(users, username)
        IN  /\ Idle
            /\ resp' = [op |-> r.op, status_code |-> r.status_code,
                        body |-> r.body, username |-> username,
                        password |-> password, at |-> now]
            /\ held' = IF r.status_code = 200
                       THEN Keep(r.body, user, now, "login")
                       ELSE held
            /\ users' = IF r.status_code = 401 /\ user # None
                        THEN (users \ {user})
                               \cup {[user EXCEPT !.is_active = FALSE]}
                        ELSE users
            /\ req' = None
            /\ UNCHANGED <<pending, now, settings, issued, verified>>

Login(usernames, passwords) ==
    \E username \in usernames, password \in passwords :
        LET r == login(users, username, password, now)
        IN  /\ Idle
            /\ resp' = [op |-> r.op, status_code |-> r.status_code,
                        body |-> r.body, username |-> username,
                        password |-> password, at |-> now]
            /\ held' = IF r.status_code = 200
                       THEN Keep(r.body, get_user_by_email(users, username), now,
                                 "login")
                       ELSE held
            /\ req' = None
            /\ UNCHANGED <<pending, now, settings, issued, verified, users>>

\* only the access token renewed, the presented refresh token handed back
refresh_token_reuse(rows, token, t) ==
    LET v == verify_token(token, "refresh", t)
        payload == v.value
        user == get_user_by_email(rows, payload["sub"])
    IN  IF payload = None
        THEN Response("refresh", 401, Detail("Invalid refresh token"))
        ELSE IF ~HasKey(payload, "sub") \/ payload["sub"] = ""
        THEN Response("refresh", 401, Detail("Invalid refresh token"))
        ELSE IF user = None \/ ~user.is_active
        THEN Response("refresh", 401, Detail("User not found or inactive"))
        ELSE Response("refresh", 200,
                      [TokenBody(user, t) EXCEPT !.refresh_token = token])

\* the active flag of the subject not looked at
refresh_token_skip_active(rows, token, t) ==
    LET v == verify_token(token, "refresh", t)
        payload == v.value
        user == get_user_by_email(rows, payload["sub"])
    IN  IF payload = None
        THEN Response("refresh", 401, Detail("Invalid refresh token"))
        ELSE IF ~HasKey(payload, "sub") \/ payload["sub"] = ""
        THEN Response("refresh", 401, Detail("Invalid refresh token"))
        ELSE IF user = None
        THEN Response("refresh", 401, Detail("User not found or inactive"))
        ELSE Response("refresh", 200, TokenBody(user, t))

refresh_token(rows, token, t) ==
    LET v == verify_token(token, "refresh", t)
        payload == v.value
        user == get_user_by_email(rows, payload["sub"])
    IN  IF payload = None
        THEN Response("refresh", 401, Detail("Invalid refresh token"))
        ELSE IF ~HasKey(payload, "sub") \/ payload["sub"] = ""
        THEN Response("refresh", 401, Detail("Invalid refresh token"))
        ELSE IF user = None \/ ~user.is_active
        THEN Response("refresh", 401, Detail("User not found or inactive"))
        ELSE Response("refresh", 200, TokenBody(user, t))

\* the refresh endpoint; src remembers which token it was called with
RefreshToken(srcs) ==
    \E src \in srcs :
        LET r == refresh_token(users, TokenFrom(src), now)
        IN  /\ Idle
            /\ HasToken(src)
            /\ resp' = [op |-> r.op, status_code |-> r.status_code,
                        body |-> r.body, src |-> src,
                        token |-> TokenFrom(src), since |-> IssuedAt(src),
                        via |-> IssuedVia(src), at |-> now]
            /\ held' = IF r.status_code = 200
                       THEN Keep(r.body,
                                 get_user_by_email(users, r.body.access_token.claims["sub"]),
                                 now, "refresh")
                       ELSE held
            /\ req' = None
            /\ UNCHANGED <<pending, now, settings, issued, verified, users>>

----------------------------------------------------------------------------
(* app/routers/users.py: the bodies of the endpoints, run with the         *)
(* current_user their dependency returned                                  *)

\* the whole dependency of an endpoint: get_current_user, then
\* get_current_active_user, then the role_checker if it declares one
depends(rows, guard, token, t) ==
    LET u == get_current_user(rows, token, t)
        a == get_current_active_user(u.value)
    IN  IF u.kind = "raise" THEN u
        ELSE IF a.kind = "raise" \/ guard = NoRoles THEN a
        ELSE role_checker(guard[1], a.value)

read_current_user(current_user) == Return(current_user)

\* get_users with the default skip and limit
read_users(rows, current_user) == Return(rows)

read_user(rows, current_user, user_id) ==
    LET user == get_user(rows, user_id)
    IN  IF current_user.id = user_id THEN Return(current_user)
        ELSE IF current_user.role \notin {ADMIN, MODERATOR}
        THEN HTTPException(403, "Not enough permissions to view other users")
        ELSE IF user = None THEN HTTPException(404, "User not found")
        ELSE Return(user)

\* `user_update.<field> is not None`
IsNotNone(user_update, field) == HasKey(user_update, field)

\* moderators let through like admins
update_user_checks_staff(rows, current_user, user_id, user_update) ==
    LET db_user == get_user(rows, user_id)
        is_self == current_user.id = user_id
        is_admin == current_user.role \in {ADMIN, MODERATOR}
    IN  IF db_user = None THEN HTTPException(404, "User not found")
        ELSE IF ~is_self /\ ~is_admin
        THEN HTTPException(403, "Not enough permissions to update this user")
        ELSE IF ~is_admin /\ IsNotNone(user_update, "role")
        THEN HTTPException(403, "Only admins can change user roles")
        ELSE IF ~is_admin /\ IsNotNone(user_update, "is_active")
        THEN HTTPException(403, "Only admins can change account status")
        ELSE Return(db_user)

\* update_user_endpoint up to its call of update_user: the existence and
\* authorization checks
update_user_checks(rows, current_user, user_id, user_update) ==
    LET db_user == get_user(rows, user_id)
        is_self == current_user.id = user_id
        is_admin == current_user.role = ADMIN
    IN  IF db_user = None THEN HTTPException(404, "User not found")
        ELSE IF ~is_self /\ ~is_admin
        THEN HTTPException(403, "Not enough permissions to update this user")
        ELSE IF ~is_admin /\ IsNotNone(user_update, "role")
        THEN HTTPException(403, "Only admins can change user roles")
        ELSE IF ~is_admin /\ IsNotNone(user_update, "is_active")
        THEN HTTPException(403, "Only admins can change account status")
        ELSE Return(db_user)

\* the caller's own id not told apart
delete_user_endpoint_any(rows, current_user, user_id) ==
    LET d == delete_user(rows, user_id)
    IN  IF ~d.result.value
        THEN [rows |-> rows, result |-> HTTPException(404, "User not found")]
        ELSE [rows |-> d.rows, result |-> Return(None)]

delete_user_endpoint(rows, current_user, user_id) ==
    LET d == delete_user(rows, user_id)
    IN  IF current_user.id = user_id
        THEN [rows |-> rows,
              result |-> HTTPException(400, "Cannot delete your own account")]
        ELSE IF ~d.result.value
        THEN [rows |-> rows, result |-> HTTPException(404, "User not found")]
        ELSE [rows |-> d.rows, result |-> Return(None)]

\* the dependency each endpoint declares
Endpoints ==
    {"read_current_user", "read_users", "read_user", "update_user_endpoint",
     "delete_user_endpoint", "register"}

GuardOf(endpoint) ==
    CASE endpoint = "read_users" -> require_moderator
      [] endpoint = "delete_user_endpoint" -> require_admin
      [] OTHER -> NoRoles

----------------------------------------------------------------------------
(* The crud operations called on the store, and the passing of time        *)

UpdateUser(ids, updates, salts) ==
    \E user_id \in ids, user_update \in updates, salt \in salts :
        LET c == update_user(users, user_id, user_update, salt)
        IN  /\ Idle
            /\ users' = c.rows
            /\ resp' = [op |-> "update_user", status_code |-> 0,
                        body |-> c.result, user_id |-> user_id,
                        user_update |-> user_update]
            /\ req' = None
            /\ UNCHANGED <<pending, now, settings, issued, verified, held>>

DeleteUser(ids) ==
    \E user_id \in ids :
        LET c == delete_user(users, user_id)
        IN  /\ Idle
            /\ users' = c.rows
            /\ resp' = Response("delete_user", 0, c.result)
            /\ req' = None
            /\ UNCHANGED <<pending, now, settings, issued, verified, held>>

AuthenticateUser(emails, passwords) ==
    \E email \in emails, password \in passwords :
        /\ Idle
        /\ resp' = [op |-> "authenticate_user", email |-> email,
                    password |-> password,
                    result |-> authenticate_user(users, email, password)]
        /\ req' = None
        /\ UNCHANGED <<pending, now, settings, issued, verified, users, held>>

\* a minute passes
Sleep ==
    /\ Idle
    /\ now + timedelta_minutes(1) <= MaxTime
    /\ now' = now + timedelta_minutes(1)
    /\ req' = None
    /\ UNCHANGED <<pending, settings, issued, verified, users, held, resp>>

----------------------------------------------------------------------------
(* Requests to the users endpoints and to register, one per client. The    *)
(* dependency of an endpoint is resolved before its body runs, and the     *)
(* body's last call (update_user, create_user) after its own checks; other *)
(* clients' steps can come in between.                                     *)

EmptyBody == [k \in {} |-> None]

HasUserId(endpoint) ==
    endpoint \in {"read_user", "update_user_endpoint", "delete_user_endpoint"}

At(c, pc) == pending[c] # None /\ pending[c].pc = pc

\* the client's request moves on to pc
Goto(c, pc) == [pending EXCEPT ![c].pc = pc]

\* the client's request ends with this result
Ends(c, result) == [pending EXCEPT ![c].pc = "done", ![c].result = result]

\* a client that has just logged in calls a users endpoint with the access
\* token of that login; caller is the row the token was issued for, as it
\* was at the login
Call(clients, endpoints, ids, updates, passwords) ==
    \E c \in clients, endpoint \in endpoints, email \in Emails,
       password \in passwords :
        \E user_id \in IF HasUserId(endpoint) THEN ids ELSE {0},
           user_update \in IF endpoint = "update_user_endpoint"
                           THEN updates ELSE {EmptyBody} :
            LET r == login(users, email, password, now)
            IN  /\ pending[c] = None
                /\ r.status_code = 200
                /\ pending' = [pending EXCEPT ![c] =
                      [endpoint |-> endpoint, token |-> r.body.access_token,
                       caller |-> get_user_by_email(users, email),
                       user_id |-> user_id, user_update |-> user_update,
                       pc |-> "depends", current_user |-> None,
                       loaded |-> None, result |-> None]]
                /\ UNCHANGED <<now, settings, issued, verified, users, held,
                               resp, req>>

\* a client posts to /auth/register
CallRegister(clients, emails, passwords) ==
    \E c \in clients, email \in emails, password \in passwords :
        /\ pending[c] = None
        /\ pending' = [pending EXCEPT ![c] =
              [endpoint |-> "register", token |-> None, caller |-> None,
               user_id |-> 0,
               user_update |-> [email |-> email, password |-> password],
               pc |-> "lookup", current_user |-> None, loaded |-> None,
               result |-> None]]
        /\ UNCHANGED <<now, settings, issued, verified, users, held, resp, req>>

\* the object get_user hands the body: the session keeps one object per
\* primary key, so for the caller's own id it is current_user as the
\* dependency loaded it
Loaded(current_user, db_user) ==
    IF current_user.id = db_user.id THEN current_user ELSE db_user

\* the part of the update the commit writes: setattr with the value the
\* session's object already has leaves the attribute unmodified, and the
\* UPDATE names modified columns only
Dirty(user_update, loaded) ==
    [k \in {f \in DOMAIN user_update :
                f \in {"password", "null"} \/ user_update[f] # loaded[f]}
        |-> user_update[k]]

\* the role check made on the row as it was when the token was issued
Depends_issued ==
    \E c \in Clients :
        /\ At(c, "depends")
        /\ LET d == depends(users, GuardOf(pending[c].endpoint),
                            pending[c].token, now)
               g == IF GuardOf(pending[c].endpoint) = NoRoles \/ d.kind = "raise"
                       \/ d.value.role = pending[c].caller.role
                    THEN d
                    ELSE role_checker(GuardOf(pending[c].endpoint)[1],
                                      pending[c].caller)
           IN  pending' = IF g.kind = "raise" THEN Ends(c, g)
                          ELSE [pending EXCEPT ![c].pc = "body",
                                               ![c].current_user = d.value]
        /\ UNCHANGED <<now, settings, issued, verified, users, held, resp, req>>

\* FastAPI resolves the endpoint's dependency
Depends ==
    \E c \in Clients :
        /\ At(c, "depends")
        /\ LET d == depends(users, GuardOf(pending[c].endpoint),
                            pending[c].token, now)
           IN  pending' = IF d.kind = "raise" THEN Ends(c, d)
                          ELSE [pending EXCEPT ![c].pc = "body",
                                               ![c].current_user = d.value]
        /\ UNCHANGED <<now, settings, issued, verified, users, held, resp, req>>

\* the body of a users endpoint, up to its call of update_user
Body ==
    \E c \in Clients :
        LET r == pending[c]
            del == delete_user_endpoint(users, r.current_user, r.user_id)
            chk == update_user_checks(users, r.current_user, r.user_id,
                                      r.user_update)
        IN  /\ At(c, "body")
            /\ CASE r.endpoint = "read_current_user" ->
                     /\ pending' = Ends(c, read_current_user(r.current_user))
                     /\ users' = users
                 [] r.endpoint = "read_users" ->
                     /\ pending' = Ends(c, read_users(users, r.current_user))
                     /\ users' = users
                 [] r.endpoint = "read_user" ->
                     /\ pending' = Ends(c, read_user(users, r.current_user,
                                                     r.user_id))
                     /\ users' = users
                 [] r.endpoint = "update_user_endpoint" ->
                     /\ pending' = IF chk.kind = "raise" THEN Ends(c, chk)
                                   ELSE [pending EXCEPT
                                           ![c].pc = "write",
                                           ![c].loaded =
                                               Loaded(r.current_user,
                                                      chk.value)]
                     /\ users' = users
                 [] r.endpoint = "delete_user_endpoint" ->
                     /\ pending' = Ends(c, del.result)
                     /\ users' = del.rows
            /\ UNCHANGED <<now, settings, issued, verified, held, resp, req>>

\* register up to its call of create_user: the lookup of the email
Lookup ==
    \E c \in Clients :
        LET existing_user ==
                get_user_by_email(users, pending[c].user_update["email"])
        IN  /\ At(c, "lookup")
            /\ pending' = IF existing_user # None
                          THEN Ends(c, HTTPException(400,
                                           "Email already registered"))
                          ELSE Goto(c, "write")
            /\ UNCHANGED <<now, settings, issued, verified, users, held,
                           resp, req>>

\* the call of update_user or create_user that ends the body, and its
\* commit; an exception of the commit is not handled by the endpoint
Write(salts) ==
    \E c \in Clients, salt \in salts :
        LET r == pending[c]
            w == IF r.endpoint = "register"
                 THEN create_user(users, r.user_update["email"],
                                  r.user_update["password"], USER, salt)
                 ELSE update_user(users, r.user_id,
                                  Dirty(r.user_update, r.loaded), salt)
        IN  /\ At(c, "write")
            /\ r.endpoint = "register" /\ ~EmailTaken(users,
                    r.user_update["email"], 0) => NextId(users) \in Ids
            /\ pending' = Ends(c, w.result)
            /\ users' = w.rows
            /\ UNCHANGED <<now, settings, issued, verified, held, resp, req>>

\* the response goes back to the client
Collect ==
    \E c \in Clients :
        /\ At(c, "done")
        /\ pending' = [pending EXCEPT ![c] = None]
        /\ UNCHANGED <<now, settings, issued, verified, users, held, resp, req>>

\* the status code the client gets; 200 stands for every success
StatusOf(result) ==
    IF result.kind = "return" THEN 200
    ELSE IF result.exc.class = "HTTPException" THEN result.exc.status_code
    ELSE 500

----------------------------------------------------------------------------
(* The guard chain over a store that changes between requests *)

StoreUpdates ==
    {[is_active |-> b] : b \in BOOLEAN}
    \cup {[role |-> r] : r \in UserRole}
    \cup {[email |-> e] : e \in Emails}
    \cup {[is_active |-> FALSE, email |-> "alice@example.com"]}

Next ==
    \/ InitDb({"salt1"})
    \/ Register(Emails, {"secret1234"}, {"salt1"})
    \/ Login(Emails, {"secret1234"})
    \/ UpdateUser(Ids, StoreUpdates, {"salt1"})
    \/ DeleteUser(Ids)
    \/ RefreshToken({"refresh", "access"})
    \/ StartRequest({"access", "refresh", "flipped", "malformed", "nosub"}, Guards)
    \/ GuardStep
    \/ Sleep

Spec == Init /\ [][Next]_vars

----------------------------------------------------------------------------
(* The codec together with its two callers, on directly issued tokens *)

NextSep ==
    \/ Tick
    \/ CreateAccessToken
    \/ CreateRefreshToken
    \/ InitDb({"salt1"})
    \/ StartRequest({"issued"}, {NoRoles, require_admin})
    \/ GuardStep
    \/ RefreshToken({"issued"})

SpecSep == Init /\ [][NextSep]_vars

----------------------------------------------------------------------------
(* Properties of the token codec *)

\* the lifetime an access token was asked to have: the explicit
\* expires_delta, or the configured lifetime when none was given
IssuedLifetime ==
    IF issued.delta = NoDelta
    THEN timedelta_minutes(settings.ACCESS_TOKEN_EXPIRE_MINUTES)
    ELSE issued.delta[1]

\* the token's expires_at: the instant create_*_token computed for it
ExpiresAt ==
    IF issued.kind = "access"
    THEN AccessExpire(issued.delta, issued.at)
    ELSE RefreshExpire(issued.at)

Succeeded(result) == result.kind = "return" /\ result.value # None

RoundTripCase ==
    /\ verified # None
    /\ issued.kind = "access"
    /\ HasKey(issued.data, "sub")
    /\ verified.how = "intact"
    /\ verified.token_type = "access"
    /\ issued.at <= verified.at
    /\ verified.at < issued.at + IssuedLifetime

\* C1: an access token issued for a subject at t with lifetime ttl, verified
\* as "access" at any t' with t <= t' < t + ttl, yields claims whose sub is
\* the subject and whose type is "access"
C1_RoundTrip ==
    RoundTripCase =>
        /\ Succeeded(verified.result)
        /\ verified.result.value["sub"] = issued.data["sub"]
        /\ verified.result.value["type"] = "access"

\* a token with an explicit lifetime verified at the last tick of it
C1_Witness ==
    /\ RoundTripCase
    /\ issued.delta # NoDelta
    /\ verified.at > issued.at
    /\ verified.at = issued.at + IssuedLifetime - 1

\* C2: verifying a token as its own type at its expires_at or later fails,
\* and one tick before expires_at it succeeds
C2_ExpiryBoundary ==
    (verified # None /\ verified.how = "intact"
        /\ verified.token_type = issued.kind) =>
        /\ verified.at >= ExpiresAt => verified.result = Return(None)
        /\ verified.at = ExpiresAt - 1 => Succeeded(verified.result)

\* C4: verify_token never raises, and returns None for every token that is
\* malformed, wrongly signed, expired or of the other type
C4_FailsClosed ==
    verified # None =>
        /\ verified.result.kind = "return"
        /\ (\/ verified.how # "intact"
            \/ verified.at >= ExpiresAt
            \/ verified.token_type # issued.kind)
           => verified.result = Return(None)

----------------------------------------------------------------------------
(* Type separation *)

OtherType(kind) == IF kind = "access" THEN "refresh" ELSE "access"

\* the issued token is good for its own type now and names a stored identity
IssuedIsGood ==
    /\ issued # None
    /\ Succeeded(verify_token(issued.token, issued.kind, now))
    /\ HasKey(issued.data, "sub")
    /\ get_user_by_email(users, issued.data["sub"]) # None

\* C3: a token issued as refresh never verifies as access and a token issued
\* as access never verifies as refresh; so the identity resolver rejects
\* every refresh token and the refresh endpoint rejects every access token
C3_TypeSeparation ==
    /\ issued # None =>
         verify_token(issued.token, OtherType(issued.kind), now) = Return(None)
    /\ (InFlight("done") /\ req.src = "issued" /\ issued.kind = "refresh")
         => Outcome(req) = "Unauthenticated"
    /\ (resp # None /\ HasKey(resp, "src") /\ issued.kind = "access")
         => resp.status_code = 401

\* an unexpired refresh token of a stored identity was refused by the guard
C3_Witness ==
    /\ InFlight("done")
    /\ req.src = "issued"
    /\ issued.kind = "refresh"
    /\ IssuedIsGood
    /\ Outcome(req) = "Unauthenticated"

----------------------------------------------------------------------------
(* Authentication against a store whose passwords change *)

AuthUpdates ==
    {[password |-> p] : p \in Passwords}
    \cup {[is_active |-> b] : b \in BOOLEAN}
    \cup {[email |-> e] : e \in Emails}

NextAuth ==
    \/ InitDb(Salts)
    \/ Register(Emails, Passwords, Salts)
    \/ UpdateUser(Ids, AuthUpdates, Salts)
    \/ DeleteUser(Ids)
    \/ AuthenticateUser(Subjects, Passwords)
    \/ Login(Subjects, Passwords)

SpecAuth == Init /\ [][NextAuth]_vars

----------------------------------------------------------------------------
(* Properties of the guard chain *)

Done == InFlight("done")

Resolved == req # None /\ req.current_user # None

Range(seq) == {seq[i] : i \in DOMAIN seq}

IsPrefix(a, b) == Len(a) <= Len(b) /\ \A i \in DOMAIN a : a[i] = b[i]

\* C5: a resolved identity with is_active = FALSE ends at "account
\* disabled" whatever its role and the guard's allow-set, never at
\* "forbidden", and the role check is not evaluated
C5_GuardOrdering ==
    (Resolved /\ ~req.current_user.is_active) =>
        /\ "role" \notin Range(req.trace)
        /\ req.pc \in {"active", "done"}
        /\ req.pc = "done" => Outcome(req) = "Disabled"

\* an inactive ADMIN stopped by require_admin at the active check
C5_Witness ==
    /\ Done /\ Resolved
    /\ ~req.current_user.is_active
    /\ req.current_user.role = ADMIN
    /\ req.guard = require_admin
    /\ Outcome(req) = "Disabled"

\* C6: for a resolved, active identity a guard built by require_role(S)
\* returns the identity iff its role is in S and ends at "forbidden"
\* otherwise; require_admin accepts ADMIN only, require_moderator accepts
\* MODERATOR and ADMIN
C6_RoleAllowSet ==
    (Done /\ Resolved /\ req.guard # NoRoles) =>
        (req.current_user.is_active =>
            /\ Outcome(req) = "Authorized" <=> req.current_user.role \in req.guard[1]
            /\ Outcome(req) = "Authorized" => req.result = Return(req.current_user)
            /\ Outcome(req) # "Authorized" => Outcome(req) = "Forbidden"
            /\ req.guard = require_admin =>
                 (Outcome(req) = "Authorized" <=> req.current_user.role = ADMIN)
            /\ req.guard = require_moderator =>
                 (Outcome(req) = "Forbidden" <=> req.current_user.role = USER))

\* an active MODERATOR refused by require_admin
C6_Witness ==
    /\ Done /\ Resolved
    /\ req.current_user.is_active
    /\ req.current_user.role = MODERATOR
    /\ req.guard = require_admin
    /\ Outcome(req) = "Forbidden"

\* the stages a request with this guard goes through when every one passes
AllStages(guard) ==
    IF guard = NoRoles THEN <<"token", "subject", "active">>
    ELSE <<"token", "subject", "active", "role">>

\* C7: the stages are evaluated in the fixed order token, subject, active,
\* role, each only after the one before it passed; Authorized is reached
\* only after all of them passed; a request in flight can always take its
\* next step and ends in exactly one of the four terminal states
C7_StageOrder ==
    req # None =>
        /\ IsPrefix(req.trace, AllStages(req.guard))
        /\ req.pc = "token" => req.trace = << >>
        /\ req.pc = "subject" =>
             /\ req.trace = <<"token">>
             /\ Succeeded(verify_token(req.token, "access", now))
        /\ req.pc = "active" =>
             /\ req.trace = <<"token", "subject">>
             /\ req.current_user \in users
        /\ req.pc = "role" =>
             /\ req.trace = <<"token", "subject", "active">>
             /\ req.current_user.is_active
        /\ req.pc # "done" => ENABLED GuardStep
        /\ req.pc = "done" =>
             /\ Outcome(req) \in {"Authorized", "Unauthenticated",
                                  "Disabled", "Forbidden"}
             /\ Outcome(req) = "Authorized" =>
                  /\ req.trace = AllStages(req.guard)
                  /\ Succeeded(verify_token(req.token, "access", now))
                  /\ req.current_user \in users
                  /\ req.current_user.email = req.token.claims["sub"]
                  /\ req.current_user.is_active
                  /\ req.guard # NoRoles =>
                       req.current_user.role \in req.guard[1]
             /\ Outcome(req) = "Unauthenticated" =>
                  req.trace \in {<<"token">>, <<"token", "subject">>}
             /\ Outcome(req) = "Disabled" =>
                  req.trace = <<"token", "subject", "active">>
             /\ Outcome(req) = "Forbidden" =>
                  req.trace = <<"token", "subject", "active", "role">>

\* a request that passed all four stages
C7_Witness ==
    /\ Done
    /\ Outcome(req) = "Authorized"
    /\ req.trace = <<"token", "subject", "active", "role">>

\* the presented token is a validly signed, unexpired access token
ValidAccess == Succeeded(verify_token(req.token, "access", now))

\* no stored identity has the email the token names
SubjectGone ==
    \/ ~HasKey(req.token.claims, "sub")
    \/ get_user_by_email(users, req.token.claims["sub"]) = None

\* C8: a valid access token whose sub is missing or names no stored
\* identity ends with the same 401 as an invalid token, never with
\* "disabled", "forbidden" or an identity
C8_SubjectResolution ==
    Done =>
        /\ (ValidAccess /\ SubjectGone) => req.result = credentials_exception
        /\ ~ValidAccess => req.result = credentials_exception

\* the identity was deleted after it logged in; its token still verifies
C8_Witness ==
    /\ Done
    /\ req.src = "access"
    /\ ValidAccess
    /\ get_user(users, held.user_id) = None
    /\ SubjectGone
    /\ Outcome(req) = "Unauthenticated"

\* the identity that logged in is stored, under the email its token names,
\* and is deactivated
HolderDeactivated ==
    /\ held # None
    /\ LET user == get_user(users, held.user_id)
       IN  /\ user # None
           /\ user.email = held.access_token.claims["sub"]
           /\ ~user.is_active

\* C9: a request with the still unexpired access token of a login whose
\* identity was deactivated afterwards ends at "account disabled", not at
\* "unauthenticated" and not at Authorized
C9_DeactivatedAfterLogin ==
    (Done /\ req.src = "access" /\ ValidAccess /\ HolderDeactivated)
        => Outcome(req) = "Disabled"

\* login, deactivation, then a request with the token of that login
C9_Witness ==
    /\ Done
    /\ req.src = "access"
    /\ ValidAccess
    /\ HolderDeactivated
    /\ Outcome(req) = "Disabled"

----------------------------------------------------------------------------
(* Properties of authenticate_user *)

\* the stored identities with this email whose hash is the hash of this
\* secret under their salt
Matching(email, password) ==
    {u \in users : /\ u.email = email
                   /\ u.hashed_password.digest
                        = Digest(password, u.hashed_password.salt)}

\* C10: authenticate_user returns the stored identity iff one with exactly
\* that email exists and the secret matches its hash, nothing otherwise,
\* whatever the identity's active flag
C10_Authenticate ==
    (resp # None /\ resp.op = "authenticate_user") =>
        LET m == Matching(resp.email, resp.password)
        IN  /\ m = {} => resp.result = None
            /\ m # {} => resp.result \in m
            /\ Cardinality(m) <= 1

\* an inactive identity authenticated with its changed password
C10_Witness ==
    /\ resp # None
    /\ resp.op = "authenticate_user"
    /\ resp.result # None
    /\ ~resp.result.is_active
    /\ resp.password # FIRST_SUPERUSER_PASSWORD

----------------------------------------------------------------------------
(* Properties of login *)

\* the response the client got is that of a login
IsLogin == resp # None /\ resp.op = "login"

\* the body of a response carries tokens
HasTokens(body) ==
    DOMAIN body \cap {"access_token", "refresh_token"} # {}

\* the answer to a login that names no stored identity
UnknownEmailAnswer ==
    login(users, "nobody@example.com", "secret1234", now)

\* C11: a login whose email is unknown and a login whose email is known but
\* whose password is wrong get the same answer, the 401 an unknown email
\* gets, without tokens, whatever the store holds and whether or not the
\* known identity is active
C11_LoginUniform ==
    (IsLogin /\ Matching(resp.username, resp.password) = {}) =>
        /\ Response(resp.op, resp.status_code, resp.body) = UnknownEmailAnswer
        /\ resp.status_code = 401
        /\ resp.body = Detail("Incorrect email or password")
        /\ ~HasTokens(resp.body)

\* a wrong password for a stored, deactivated identity
C11_Witness ==
    /\ IsLogin
    /\ Matching(resp.username, resp.password) = {}
    /\ \E u \in users : u.email = resp.username /\ ~u.is_active
    /\ resp.status_code = 401

\* the "account disabled" answer of login
IsDisabledAnswer ==
    /\ resp.status_code = 400
    /\ resp.body = Detail("Inactive user account")

\* C12: login ends in "account disabled" iff the submitted credentials are
\* correct for an identity whose active flag is false; that answer carries
\* no access or refresh token and differs from the credential failure
C12_LoginDisabled ==
    IsLogin =>
        /\ IsDisabledAnswer <=>
              \E u \in Matching(resp.username, resp.password) : ~u.is_active
        /\ IsDisabledAnswer =>
              /\ ~HasTokens(resp.body)
              /\ Response(resp.op, resp.status_code, resp.body)
                    # UnknownEmailAnswer

\* a deactivated identity logging in with its changed password
C12_Witness ==
    /\ IsLogin
    /\ IsDisabledAnswer
    /\ resp.password # FIRST_SUPERUSER_PASSWORD
    /\ \E u \in Matching(resp.username, resp.password) : ~u.is_active

\* the token verifies as token_type at instant t and names this email
VerifiesFor(token, token_type, t, email) ==
    LET v == verify_token(token, token_type, t)
    IN  /\ Succeeded(v)
        /\ HasKey(v.value, "sub")
        /\ v.value["sub"] = email

\* C13: a login with the correct password of an active identity returns
\* exactly one access token and one refresh token; the first verifies as
\* "access", the second as "refresh", both with sub equal to the email the
\* identity is stored under
C13_LoginTokens ==
    IsLogin =>
        \A u \in Matching(resp.username, resp.password) :
            u.is_active =>
                /\ resp.status_code = 200
                /\ DOMAIN resp.body
                     = {"access_token", "refresh_token", "token_type"}
                /\ VerifiesFor(resp.body.access_token, "access", resp.at, u.email)
                /\ VerifiesFor(resp.body.refresh_token, "refresh", resp.at, u.email)
                /\ resp.body.access_token # resp.body.refresh_token
                /\ held.access_token = resp.body.access_token
                /\ held.refresh_token = resp.body.refresh_token

\* a registered identity logging in after its password was changed
C13_Witness ==
    /\ IsLogin
    /\ resp.status_code = 200
    /\ resp.username # FIRST_SUPERUSER_EMAIL
    /\ resp.password # FIRST_SUPERUSER_PASSWORD
    /\ \E u \in Matching(resp.username, resp.password) :
          u.is_active /\ u.role = USER

----------------------------------------------------------------------------
(* Properties of the refresh endpoint *)

IsRefresh == resp # None /\ resp.op = "refresh"

\* the refresh token of the last login or refresh was presented before its
\* expires_at
UnexpiredRefresh ==
    /\ IsRefresh
    /\ resp.src = "refresh"
    /\ resp.at < RefreshExpire(resp.since)

\* the stored identity the presented token names
SubjectOf(token) == get_user_by_email(users, token.claims["sub"])

\* C14: an unexpired refresh token, from login or from an earlier refresh,
\* whose subject is a stored, active identity is answered with a new access
\* token and a new refresh token, each with sub equal to the email that
\* identity has now
C14_Refresh ==
    (UnexpiredRefresh /\ SubjectOf(resp.token) # None
        /\ SubjectOf(resp.token).is_active) =>
        LET user == SubjectOf(resp.token)
        IN  /\ resp.status_code = 200
            /\ DOMAIN resp.body
                 = {"access_token", "refresh_token", "token_type"}
            /\ VerifiesFor(resp.body.access_token, "access", resp.at, user.email)
            /\ VerifiesFor(resp.body.refresh_token, "refresh", resp.at, user.email)
            /\ resp.at > resp.since =>
                 resp.body.refresh_token.claims["exp"] > resp.token.claims["exp"]
            /\ held.refresh_token = resp.body.refresh_token

\* a refresh token that itself came from a refresh, presented a minute later
C14_Witness ==
    /\ UnexpiredRefresh
    /\ resp.via = "refresh"
    /\ resp.at > resp.since
    /\ resp.status_code = 200

----------------------------------------------------------------------------
(* Properties of registration *)

\* the step is a call of register
RegisterStep ==
    /\ resp' # None
    /\ resp'.op = "register"
    /\ <<users, resp>>' # <<users, resp>>

\* C15: register with an email a stored identity has answers 400 "Email
\* already registered" and leaves the store as it was; register with an
\* unused email adds exactly one identity, active, with role USER
C15_Register ==
    [][RegisterStep =>
        IF \E u \in users : u.email = resp'.email
        THEN /\ resp'.status_code = 400
             /\ resp'.body = Detail("Email already registered")
             /\ users' = users
        ELSE /\ resp'.status_code = 201
             /\ \E u \in users' :
                   /\ u \notin users
                   /\ users' = users \cup {u}
                   /\ u.id \notin {w.id : w \in users}
                   /\ u.email = resp'.email
                   /\ u.is_active
                   /\ u.role = USER
                   /\ resp'.body = UserRead(u)]_vars

\* a second registration of an email refused, both identities still stored
C15_Witness ==
    /\ resp # None
    /\ resp.op = "register"
    /\ resp.status_code = 400
    /\ resp.email # FIRST_SUPERUSER_EMAIL
    /\ Cardinality(users) = 2

----------------------------------------------------------------------------
(* Login and refresh under every configuration Settings accepts: the two   *)
(* lifetimes are plain int fields, read from the environment with no       *)
(* validator relating one to the other                                     *)

InitConfig ==
    /\ now = 0
    /\ settings \in [ACCESS_TOKEN_EXPIRE_MINUTES : 1 .. MaxConfigMinutes,
                     REFRESH_TOKEN_EXPIRE_DAYS : 1 .. MaxConfigDays]
    /\ issued = None
    /\ verified = None
    /\ users = {}
    /\ held = None
    /\ resp = None
    /\ req = None
    /\ pending = [c \in Clients |-> None]

NextConfig ==
    \/ Tick
    \/ InitDb({"salt1"})
    \/ Login({FIRST_SUPERUSER_EMAIL}, {FIRST_SUPERUSER_PASSWORD})
    \/ RefreshToken({"refresh"})

SpecConfig == InitConfig /\ [][NextConfig]_vars

\* C16: for every configuration of the access lifetime in minutes and the
\* refresh lifetime in days, the refresh token issued together with an
\* access token by login or refresh expires strictly later, and still
\* verifies at the instant that access token expires
C16_RefreshOutlives ==
    held # None =>
        /\ held.refresh_token.claims["exp"] > held.access_token.claims["exp"]
        /\ now = AccessExpire(NoDelta, held.at) =>
              Succeeded(verify_token(held.refresh_token, "refresh", now))

----------------------------------------------------------------------------
(* The claims create_*_token embed *)

\* C17: create_access_token called at an instant with an explicit lifetime
\* embeds exp = that instant + the lifetime, for every lifetime supplied,
\* zero included, and the configured lifetime only when none is supplied;
\* the embedded type is "access", and "refresh" for create_refresh_token,
\* whatever keys the caller's data has
C17_AccessExpiry ==
    issued # None =>
        /\ issued.token.claims["type"] = issued.kind
        /\ issued.kind = "access" =>
              issued.token.claims["exp"] = timegm(issued.at + IssuedLifetime)
        /\ issued.kind = "refresh" =>
              issued.token.claims["exp"]
                = timegm(issued.at
                         + timedelta_days(settings.REFRESH_TOKEN_EXPIRE_DAYS))

----------------------------------------------------------------------------
(* The password hasher over every stored-hash string. The users table      *)
(* outlives the process (DATABASE_URL is a file), so at start-up it may    *)
(* hold a row whose hash this release did not write: the bcrypt hash of    *)
(* the passlib context security.py used before, an empty or a cut string.  *)

\* an argon2 hash whose digest part is damaged, a bcrypt hash, no hash
CorruptHash == [salt |-> "salt1", digest |-> <<"argon2", "salt1">>]
BcryptHash == [raw |-> "$2b$12$bcrypthashofthepassword"]
EmptyHash == [raw |-> ""]

StoredHashes ==
    {get_password_hash(password, "salt1") : password \in Passwords}
    \cup {CorruptHash, BcryptHash, EmptyHash}

InitHash ==
    /\ now = 0
    /\ settings \in [ACCESS_TOKEN_EXPIRE_MINUTES : 1 .. MaxAccessMinutes,
                     REFRESH_TOKEN_EXPIRE_DAYS : 1 .. MaxRefreshDays]
    /\ issued = None
    /\ verified = None
    /\ users \in {{}} \cup
         {{[id |-> 1, email |-> FIRST_SUPERUSER_EMAIL, hashed_password |-> h,
            is_active |-> a, role |-> ADMIN]} :
              h \in StoredHashes, a \in BOOLEAN}
    /\ held = None
    /\ resp = None
    /\ req = None
    /\ pending = [c \in Clients |-> None]

VerifyPassword(passwords, hashes) ==
    \E plain_password \in passwords, hashed_password \in hashes :
        /\ Idle
        /\ resp' = [op |-> "verify_password",
                    plain_password |-> plain_password,
                    hashed_password |-> hashed_password,
                    result |-> verify_password(plain_password, hashed_password)]
        /\ req' = None
        /\ UNCHANGED <<pending, now, settings, issued, verified, users, held>>

NextHash ==
    \/ VerifyPassword(Passwords, StoredHashes)
    \/ AuthenticateUser(Emails, Passwords)
    \/ Login(Emails, Passwords)
    \/ UpdateUser({1}, {[password |-> p] : p \in Passwords}, {"salt1"})

SpecHash == InitHash /\ [][NextHash]_vars

\* the string is a hash get_password_hash made
IsHashOfSome(hash) ==
    \E password \in Passwords, salt \in Salts :
        hash = get_password_hash(password, salt)

\* C18: verify_password returns a boolean for every secret and every
\* stored-hash string and never raises, returning false for a malformed or
\* unrecognised hash; so authenticate_user returns nothing, and raises
\* nothing, when the stored hash is malformed
C18_VerifyNeverRaises ==
    /\ (resp # None /\ resp.op = "verify_password") =>
          /\ resp.result.kind = "return"
          /\ resp.result.value \in BOOLEAN
          /\ ~IsHashOfSome(resp.hashed_password) => resp.result.value = FALSE
    /\ (resp # None /\ resp.op = "authenticate_user") =>
          /\ ~IsRaised(resp.result)
          /\ \A u \in users :
                (u.email = resp.email /\ ~IsHashOfSome(u.hashed_password))
                    => resp.result = None

----------------------------------------------------------------------------
(* Tokens held by a client while the store changes under them *)

\* verify_token applied to a token the client holds from login or refresh
VerifyHeld ==
    \E kind \in TokenTypes, token_type \in TokenTypes :
        LET token == IF kind = "access" THEN held.access_token
                     ELSE held.refresh_token
        IN  /\ Idle
            /\ held # None
            /\ verified' = [token |-> token, kind |-> kind,
                            token_type |-> token_type, since |-> held.at,
                            user_id |-> held.user_id, at |-> now,
                            result |-> verify_token(token, token_type, now)]
            /\ UNCHANGED <<pending, now, settings, issued, users, held, resp, req>>

ValidityUpdates ==
    {[password |-> "password123"], [is_active |-> FALSE], [role |-> USER],
     [email |-> "alice@example.com"]}

NextValidity ==
    \/ InitDb({"salt1"})
    \/ Login({FIRST_SUPERUSER_EMAIL}, Passwords)
    \/ RefreshToken({"refresh"})
    \/ UpdateUser({1}, ValidityUpdates, {"salt1"})
    \/ DeleteUser({1})
    \/ VerifyHeld
    \/ Sleep

SpecValidity == Init /\ [][NextValidity]_vars

\* the instant the verified token was given as its expiry
VerifiedExpiresAt ==
    IF verified.kind = "access"
    THEN AccessExpire(NoDelta, verified.since)
    ELSE RefreshExpire(verified.since)

\* C19: what verify_token returns for a token depends on the token, the
\* expected type and the instant only: a token from login or refresh,
\* verified as its own type before its expiry, yields its claims whatever
\* register, login, refresh, update (password change and deactivation
\* included) and delete did to the store since it was issued, and the same
\* call at the same instant gives the same result after any of them
C19_StateIndependent ==
    (verified # None /\ HasKey(verified, "since")) =>
        /\ (verified.token_type = verified.kind
                /\ verified.at < VerifiedExpiresAt)
             => verified.result = Return(verified.token.claims)
        /\ verified.token_type # verified.kind
             => verified.result = Return(None)
        /\ verified.at = now
             => verify_token(verified.token, verified.token_type, now)
                  = verified.result

\* the identity was deleted after its login; a minute later its access
\* token still verifies
C19_Witness ==
    /\ verified # None
    /\ HasKey(verified, "since")
    /\ verified.kind = "access"
    /\ verified.at > verified.since
    /\ get_user(users, verified.user_id) = None
    /\ Succeeded(verified.result)

----------------------------------------------------------------------------
(* Every operation of the core over one store; tokens are issued by login *)
(* and refresh, their only callers of create_*_token                       *)

FrameUpdates == {[is_active |-> FALSE], [role |-> USER]}

NextFrame ==
    \/ InitDb({"salt1"})
    \/ Register({"alice@example.com"}, {"secret1234"}, {"salt1"})
    \/ AuthenticateUser(Emails, Passwords)
    \/ Login(Emails, Passwords)
    \/ RefreshToken({"refresh", "access"})
    \/ VerifyHeld
    \/ UpdateUser(Ids, FrameUpdates, {"salt1"})
    \/ DeleteUser(Ids)
    \/ StartRequest({"access", "refresh", "malformed"}, {NoRoles, require_admin})
    \/ GuardStep

SpecFrame == Init /\ [][NextFrame]_vars

\* the operation the step is a call of, for the handlers that answer
StepOp ==
    IF resp' # None /\ (resp' # resp \/ users' # users)
    THEN resp'.op ELSE "none"

\* the primary keys stored
StoredIds(rows) == {u.id : u \in rows}

\* C20: token issuance, token verification, authenticate_user, the guard
\* chain, login and refresh leave the users table as it was, whatever they
\* answer; a row is added only by register or the bootstrap, changed only
\* by update and removed only by delete
C20_Frame ==
    [][/\ (\/ issued' # issued
           \/ verified' # verified
           \/ req' # req
           \/ held' # held
           \/ StepOp \in {"authenticate_user", "login", "refresh"})
          => users' = users
       /\ StoredIds(users') \ StoredIds(users) # {}
          => /\ StepOp \in {"register", "init_db"}
             /\ users \subseteq users'
             /\ Cardinality(users') = Cardinality(users) + 1
       /\ StoredIds(users) \ StoredIds(users') # {}
          => /\ StepOp = "delete_user"
             /\ users' \subseteq users
       /\ (\E u \in users : \E w \in users' : u.id = w.id /\ u # w)
          => StepOp = "update_user"]_vars

\* a login refused for a wrong password, the two stored identities as they
\* were
C20_Witness ==
    /\ IsLogin
    /\ resp.status_code = 401
    /\ Cardinality(users) = 2
    /\ \E u \in users : u.email = resp.username /\ u.is_active

----------------------------------------------------------------------------
(* Properties of the stored rows *)

\* the columns of a row of the users table
Columns == {"id", "email", "hashed_password", "is_active", "role"}

\* the secrets the stored hash verifies
SecretsOf(u) ==
    {p \in Passwords : verify_password(p, u.hashed_password) = Return(TRUE)}

\* C21: in every state register, the bootstrap and update lead to, a stored
\* identity holds the hash of its password and nothing else of it: no row
\* has a password field, hashed_password is a hash get_password_hash made,
\* and an update that supplies a password leaves the row with a hash of
\* that password
C21_NoPlaintext ==
    /\ \A u \in users :
          /\ DOMAIN u = Columns
          /\ IsHashOfSome(u.hashed_password)
          /\ Cardinality(SecretsOf(u)) = 1
    /\ (resp # None /\ resp.op = "update_user"
           /\ HasKey(resp.user_update, "password")
           /\ resp.body.kind = "return" /\ resp.body.value # None) =>
          \E u \in users :
              /\ u.id = resp.user_id
              /\ u = resp.body.value
              /\ SecretsOf(u) = {resp.user_update["password"]}

\* a registered identity whose password was replaced by update
C21_Witness ==
    /\ resp # None
    /\ resp.op = "update_user"
    /\ HasKey(resp.user_update, "password")
    /\ \E u \in users :
          /\ u.id = resp.user_id
          /\ u.role = USER
          /\ SecretsOf(u) = {"password123"}
          /\ u.hashed_password.salt = "salt2"

----------------------------------------------------------------------------
(* The users endpoints called one request at a time *)

\* no request is in flight
Quiet == \A c \in Clients : pending[c] = None

\* an id the table never hands out
MissingId == 3

UsersUpdates ==
    {[role |-> USER], [role |-> MODERATOR], [role |-> ADMIN],
     [is_active |-> FALSE], [password |-> "secret1234"],
     [email |-> "admin@example.com"],
     [null |-> {"role"}], [null |-> {"is_active"}]}

NextUsers ==
    \/ Quiet /\ InitDb({"salt1"})
    \/ Quiet /\ Register({"alice@example.com"}, {"password123"}, {"salt1"})
    \/ Call({"c1"}, Endpoints \ {"register"}, Ids \cup {MissingId},
            UsersUpdates, Passwords)
    \/ Depends
    \/ Body
    \/ Write({"salt1"})
    \/ Collect

SpecUsers == Init /\ [][NextUsers]_vars

\* the request of client c has been answered
Answered(c) == At(c, "done")

\* the request went past its dependency, so its caller was active
PastGuard(c) == Answered(c) /\ pending[c].current_user # None

\* the documented matrix: may a caller of this role use the endpoint on
\* its own id (self) or on another id
Matrix(role, endpoint, self) ==
    CASE endpoint = "read_current_user" -> TRUE
      [] endpoint = "read_users" -> role \in {MODERATOR, ADMIN}
      [] endpoint = "read_user" -> self \/ role \in {MODERATOR, ADMIN}
      [] endpoint = "update_user_endpoint" -> self \/ role = ADMIN
      [] endpoint = "delete_user_endpoint" -> role = ADMIN

\* ADMIN over MODERATOR over USER
Rank(role) == CASE role = USER -> 1 [] role = MODERATOR -> 2 [] role = ADMIN -> 3

\* the update names a field only admins may set
NamesAdminField(user_update) ==
    IsNotNone(user_update, "role") \/ IsNotNone(user_update, "is_active")

\* what the endpoint answers to this caller: its role check, then its body
Decision(rows, current_user, endpoint, user_id, user_update) ==
    LET g == IF GuardOf(endpoint) = NoRoles THEN Return(current_user)
             ELSE role_checker(GuardOf(endpoint)[1], current_user)
    IN  IF g.kind = "raise" THEN g
        ELSE CASE endpoint = "read_current_user" ->
                     read_current_user(current_user)
               [] endpoint = "read_users" -> read_users(rows, current_user)
               [] endpoint = "read_user" ->
                     read_user(rows, current_user, user_id)
               [] endpoint = "update_user_endpoint" ->
                     update_user_checks(rows, current_user, user_id,
                                        user_update)
               [] endpoint = "delete_user_endpoint" ->
                     delete_user_endpoint(rows, current_user, user_id).result

SameFlags(rows, rows2) ==
    /\ {u.id : u \in rows} = {u.id : u \in rows2}
    /\ \A u \in rows, v \in rows2 :
          u.id = v.id => u.role = v.role /\ u.is_active = v.is_active

\* client c's request is a PATCH whose caller is not an admin
NonAdminPatch(c) ==
    /\ pending[c] # None
    /\ pending[c].endpoint = "update_user_endpoint"
    /\ pending[c].current_user # None
    /\ pending[c].current_user.role # ADMIN

\* the body sets the field, to a value or to null
Supplies(user_update, field) ==
    HasKey(user_update, field) \/ field \in Nulls(user_update)

\* no step of a PATCH by a caller who is not an admin changes the role or
\* the active flag of any stored identity
PatchKeepsFlags ==
    [][\A c \in Clients :
          (NonAdminPatch(c) /\ pending'[c] # pending[c]) =>
              SameFlags(users, users')]_vars

\* C23: a PATCH by a caller who is not an admin that supplies role or
\* is_active, or whose target is another stored identity, is answered 403
\* (the store is left as it was by every step of such a request, see
\* PatchKeepsFlags)
C23_NoEscalation ==
    \A c \in Clients :
        (/\ Answered(c) /\ NonAdminPatch(c)
         /\ get_user(users, pending[c].user_id) # None
         /\ \/ Supplies(pending[c].user_update, "role")
            \/ Supplies(pending[c].user_update, "is_active")
            \/ pending[c].user_id # pending[c].current_user.id)
        => StatusOf(pending[c].result) = 403

\* client c's request is a DELETE
IsDelete(c) ==
    pending[c] # None /\ pending[c].endpoint = "delete_user_endpoint"

\* C24: the body of a DELETE, which only an admin's request reaches,
\* answers 400 and changes nothing when the id is the caller's own; answers
\* 404 and changes nothing when no identity has the id; and otherwise
\* succeeds and removes the identity with that id and no other. The
\* dependency of a DELETE changes nothing either.
C24_Delete ==
    [][\A c \in Clients :
          (IsDelete(c) /\ pending'[c] # pending[c]) =>
              LET r == pending[c]
                  cu == r.current_user
                  target == get_user(users, r.user_id)
              IN  /\ r.pc # "body" => users' = users
                  /\ r.pc = "body" =>
                        /\ cu.role = ADMIN
                        /\ Answered(c)'
                        /\ r.user_id = cu.id =>
                              /\ StatusOf(pending'[c].result) = 400
                              /\ users' = users
                        /\ (r.user_id # cu.id /\ target = None) =>
                              /\ StatusOf(pending'[c].result) = 404
                              /\ users' = users
                        /\ (r.user_id # cu.id /\ target # None) =>
                              /\ StatusOf(pending'[c].result) = 200
                              /\ users' = users \ {target}
                              /\ target \in users]_vars

\* an admin asked for the deletion of its own id, was refused with 400 and
\* is still stored
C24_Witness ==
    \E c \in Clients :
        /\ Answered(c) /\ IsDelete(c)
        /\ pending[c].current_user # None
        /\ pending[c].user_id = pending[c].current_user.id
        /\ StatusOf(pending[c].result) = 400
        /\ pending[c].current_user \in users
        /\ Cardinality(users) = 2

----------------------------------------------------------------------------
(* Tokens and the identities they were issued for *)

\* C25: whenever the resolver has found a row for the access token the
\* client holds from login or refresh, it is the row of the identity the
\* token was issued for: it has that identity's id
C25_SameIdentity ==
    (req # None /\ req.src = "access" /\ req.current_user # None) =>
        req.current_user.id = held.user_id

----------------------------------------------------------------------------
(* Requests of two clients interleaved: register and the update of an     *)
(* email                                                                   *)

EmailUpdates == {[email |-> e] : e \in Emails}

NextRace ==
    \/ Quiet /\ InitDb({"salt1"})
    \/ CallRegister(Clients, Emails, {"password123"})
    \/ Call(Clients, {"update_user_endpoint"}, Ids, EmailUpdates, Passwords)
    \/ Depends
    \/ Body
    \/ Lookup
    \/ Write({"salt1"})
    \/ Collect

SpecRace == Init /\ [][NextRace]_vars

\* no two rows with one email
UniqueEmails(rows) ==
    \A u \in rows, v \in rows : u.email = v.email => u = v

\* the email client c's request is about to write, and the id of the row
\* it writes it to (0 for a new row)
WrittenEmail(c) == pending[c].user_update["email"]

\* the write of client c's request sets the email column
WritesEmail(c) ==
    \/ pending[c].endpoint = "register"
    \/ HasKey(Dirty(pending[c].user_update, pending[c].loaded), "email")

WrittenId(c) ==
    IF pending[c].endpoint = "register" THEN 0 ELSE pending[c].user_id

\* C26: whatever the order of the lookups and writes of two clients'
\* register and update requests, no two stored identities have the same
\* email after any step; and a write that would give a row an email
\* another stored row has ends its request with an error and leaves the
\* store as it was
C26_UniqueEmail ==
    [][/\ UniqueEmails(users')
       /\ \A c \in Clients :
             (/\ At(c, "write")
              /\ pending'[c] # pending[c]
              /\ WritesEmail(c)
              /\ \E u \in users : /\ u.email = WrittenEmail(c)
                                   /\ u.id # WrittenId(c))
             => /\ users' = users
                /\ pending'[c].result.kind = "raise"]_vars

\* two registrations of one email both passed the lookup; the second
\* write failed and the email is stored once
C26_Witness ==
    \E c \in Clients :
        /\ Answered(c)
        /\ pending[c].endpoint = "register"
        /\ pending[c].result = Raise("IntegrityError")
        /\ Cardinality({u \in users : u.email = WrittenEmail(c)}) = 1

----------------------------------------------------------------------------
(* Roles changed while tokens are out: one client's PATCH of a role       *)
(* between another client's login and its request                          *)

RoleUpdates == {[role |-> r] : r \in UserRole}

NextRole ==
    \/ Quiet /\ InitDb({"salt1"})
    \/ Quiet /\ Register({"alice@example.com"}, {"password123"}, {"salt1"})
    \/ Call({"c1"}, {"read_users", "delete_user_endpoint"}, {MissingId},
            {EmptyBody}, Passwords)
    \/ Call({"c2"}, {"update_user_endpoint"}, Ids, RoleUpdates, Passwords)
    \/ Depends
    \/ Body
    \/ Write({"salt1"})
    \/ Collect

SpecRole == Init /\ [][NextRole]_vars

\* C27: when the dependency of an endpoint guarded by require_role(S) runs
\* with an access token issued for an identity that is still stored and
\* active, the request passes if and only if the role that identity has in
\* the store at that moment is in S, whatever its role was when the token
\* was issued; otherwise it is answered 403
C27_CurrentRole ==
    [][\A c \in Clients :
          LET r == pending[c]
              row == get_user(users, r.caller.id)
          IN  (/\ At(c, "depends")
               /\ pending'[c] # r
               /\ GuardOf(r.endpoint) # NoRoles
               /\ row # None /\ row.is_active /\ row.email = r.caller.email)
              => /\ pending'[c].pc = "body" <=>
                        row.role \in GuardOf(r.endpoint)[1]
                 /\ pending'[c].pc = "body" =>
                        pending'[c].current_user = row
                 /\ pending'[c].pc # "body" =>
                        StatusOf(pending'[c].result) = 403]_vars

\* an admin logged in, was demoted, and its DELETE with the token of that
\* login was refused
C27_Witness ==
    \E c \in Clients :
        /\ Answered(c) /\ IsDelete(c)
        /\ pending[c].caller.role = ADMIN
        /\ get_user(users, pending[c].caller.id) # None
        /\ get_user(users, pending[c].caller.id).role # ADMIN
        /\ StatusOf(pending[c].result) = 403

----------------------------------------------------------------------------
(* Issuance and the state of the identity *)

\* the last answer came from login or refresh
IsIssuance == resp # None /\ resp.op \in {"login", "refresh"}

\* a stored, active identity has this email
ActiveEmail(email) == \E u \in users : u.email = email /\ u.is_active

\* C28: a refresh with an unexpired refresh token whose subject is not
\* stored any more, or is stored inactive, is answered 401 without any
\* token; and every token body login or refresh answers with names, in
\* both tokens, the email of an identity that is stored and active at that
\* moment
C28_NoTokens ==
    /\ (UnexpiredRefresh
          /\ (SubjectOf(resp.token) = None
                \/ ~SubjectOf(resp.token).is_active)) =>
            /\ resp.status_code = 401
            /\ ~HasTokens(resp.body)
    /\ (IsIssuance /\ HasTokens(resp.body)) =>
            /\ resp.status_code = 200
            /\ ActiveEmail(resp.body.access_token.claims["sub"])
            /\ ActiveEmail(resp.body.refresh_token.claims["sub"])
    /\ (IsIssuance /\ resp.status_code = 200) => HasTokens(resp.body)

\* the refresh token of a login was presented, unexpired, after its
\* identity was deactivated, and was refused
C28_Witness ==
    /\ UnexpiredRefresh
    /\ SubjectOf(resp.token) # None
    /\ ~SubjectOf(resp.token).is_active
    /\ resp.status_code = 401
    /\ resp.at > resp.since

----------------------------------------------------------------------------
(* DELETE requests of two clients interleaved *)

\* a second admin is made before the requests start
Promotions == {[role |-> ADMIN]}

NextDelete ==
    \/ Quiet /\ InitDb({"salt1"})
    \/ Quiet /\ Register({"alice@example.com"}, {"password123"}, {"salt1"})
    \/ Quiet /\ UpdateUser(Ids, Promotions, {"salt1"})
    \/ Call(Clients, {"delete_user_endpoint"}, Ids \cup {MissingId},
            {EmptyBody}, Passwords)
    \/ Depends
    \/ Body
    \/ Collect

SpecDelete == Init /\ [][NextDelete]_vars

HasActiveAdmin(rows) == \E u \in rows : u.role = ADMIN /\ u.is_active

HasAdmin(rows) == \E u \in rows : u.role = ADMIN

\* C29: no step of any interleaving of DELETE requests, whose guard check
\* and deletion are separate steps, takes a store that holds an active
\* admin to a store that holds no admin
C29_AdminRemains ==
    [][HasActiveAdmin(users) => HasAdmin(users')]_vars

----------------------------------------------------------------------------
(* Updates of the password and authentication *)

\* authenticate_user finds nobody for this email and secret
Refused(rows, email, password) ==
    authenticate_user(rows, email, password) = None

\* C30: after an update_user that changed a row and supplied a password,
\* authenticate_user returns that row for its email with the new password
\* and nothing with any other password, the previous one included; after an
\* update_user that supplied no password the row has the hash it had, and
\* every secret is accepted or refused for it as before
C30_PasswordChange ==
    [][(/\ resp' # None /\ resp'.op = "update_user"
        /\ resp'.body.kind = "return" /\ resp'.body.value # None) =>
          LET x == resp'.body.value
              old == get_user(users, resp'.user_id)
              user_update == resp'.user_update
          IN  /\ x \in users'
              /\ HasKey(user_update, "password") =>
                    /\ authenticate_user(users', x.email,
                                         user_update["password"]) = x
                    /\ \A p \in Passwords \ {user_update["password"]} :
                          Refused(users', x.email, p)
              /\ ~HasKey(user_update, "password") =>
                    /\ x.hashed_password = old.hashed_password
                    /\ \A p \in Passwords :
                          Refused(users', x.email, p)
                            <=> Refused(users, old.email, p)]_vars

\* the bootstrap admin, created with one password, after an update to the
\* other: only the new one is accepted
C30_Witness ==
    /\ resp # None /\ resp.op = "update_user"
    /\ resp.user_update = [password |-> "password123"]
    /\ resp.body.kind = "return" /\ resp.body.value # None
    /\ resp.body.value.role = ADMIN
    /\ resp.body.value.email = FIRST_SUPERUSER_EMAIL
    /\ authenticate_user(users, FIRST_SUPERUSER_EMAIL, "password123")
         = resp.body.value
    /\ Refused(users, FIRST_SUPERUSER_EMAIL, FIRST_SUPERUSER_PASSWORD)

====
